---- MODULE Spec2Model ----
(***************************************************************************)
(* Talent Match Intelligence (Step 3/app.py): the baseline builder, the    *)
(* distance-to-match transform, the match scorer and the analysis run of   *)
(* main().                                                                 *)
(*                                                                         *)
(* Numbers.  Every score, mean and standard deviation is held as an        *)
(* integer number of hundredths (85.00 is 8500, 7.07 is 707).  A value     *)
(* that the code does not round (a per-dimension match, a sum of weighted  *)
(* matches) is an exact fraction <<n, d>>.  round(x, 2) is the nearest     *)
(* hundredth with ties to even, which is what numpy's round does; binary   *)
(* floating-point representation error is not modelled.                    *)
(* A missing number (None / NaN in the data frame) is NaN.                 *)
(***************************************************************************)
EXTENDS Integers, Sequences, FiniteSets, TLC

\* --------------------------------------------------------------------------
\* Bounds of the model
\* --------------------------------------------------------------------------
MaxVal == 3          \* transform inputs: candidate values 0 .. MaxVal (units)
MaxScore == 3        \* competency scores 1 .. MaxScore (units)
MaxRoster == 2       \* rows of the performance roster
MaxBenchRows == 3    \* competency sub-score: competency rows of the benchmark employees
MaxEmpRows == 2      \* competency sub-score: competency rows of the scored employee

\* --------------------------------------------------------------------------
\* Number helpers
\* --------------------------------------------------------------------------
NaN == -1

isna(x) == x = NaN

Abs(x) == IF x < 0 THEN -x ELSE x

Max(a, b) == IF a >= b THEN a ELSE b

RECURSIVE GCD(_, _)
GCD(a, b) == IF b = 0 THEN a ELSE GCD(b, a % b)

\* the fraction n/d in lowest terms (n >= 0, d > 0)
Norm(n, d) == LET g == GCD(n, d) IN IF g = 0 THEN <<0, 1>> ELSE <<n \div g, d \div g>>

RatAdd(p, q) ==
    LET g == GCD(p[2], q[2])
        l == (p[2] \div g) * q[2]
    IN  Norm(p[1] * (l \div p[2]) + q[1] * (l \div q[2]), l)

\* p * (a / b)
RatScale(p, a, b) ==
    LET x == Norm(p[1], b)
        y == Norm(a, p[2])
    IN  Norm(x[1] * y[1], x[2] * y[2])

\* nearest integer to n/d, ties to the even integer (n >= 0, d > 0)
RoundHalfEven(n, d) ==
    LET q == n \div d
        r == n % d
    IN  IF 2 * r < d THEN q
        ELSE IF 2 * r > d THEN q + 1
        ELSE IF q % 2 = 0 THEN q ELSE q + 1

\* round(p, 2) of the fraction p, as hundredths
Round2(p) ==
    LET q == p[1] \div p[2]
        r == p[1] % p[2]
    IN  100 * q + RoundHalfEven(100 * r, p[2])

\* --------------------------------------------------------------------------
\* calculate_tv_match_vectorized (one element of the array)
\*   v, mean, std in hundredths or NaN; the match in points as a fraction,
\*   <<NaN, 1>> when numpy yields nan
\* --------------------------------------------------------------------------
\* the transform without the "baseline_std == 0" test: numpy divides by zero
TVNoZeroGuard(v, mean, std) ==
    IF isna(mean) \/ isna(std) THEN <<0, 1>>
    ELSE IF isna(v) THEN <<NaN, 1>>
    ELSE IF std = 0 THEN (IF v = mean THEN <<NaN, 1>> ELSE <<0, 1>>)
    ELSE Norm(Max(0, 100 * std - 10 * Abs(v - mean)), std)

\* the transform without the floor at 0
TVNoFloor(v, mean, std) ==
    IF isna(mean) \/ isna(std) \/ std = 0 THEN <<0, 1>>
    ELSE IF isna(v) THEN <<NaN, 1>>
    ELSE Norm(Abs(100 * std - 10 * Abs(v - mean)), std)

calculate_tv_match_vectorized(v, mean, std) ==
    IF isna(mean) \/ isna(std) \/ std = 0 THEN <<0, 1>>
    ELSE IF isna(v) THEN <<NaN, 1>>
    ELSE Norm(Max(0, 100 * std - 10 * Abs(v - mean)), std)


\* --------------------------------------------------------------------------
\* Data: identifiers, tables and the values the store can return
\* --------------------------------------------------------------------------
Employees == {"E1", "E2"}

Pillars == {"P1", "P2"}

PsychVars == <<"pauli", "gtq", "iq">>

\* None, and the empty pd.DataFrame() returned on failure
None == [none |-> TRUE]

\* --------------------------------------------------------------------------
\* pandas statistics used by the baseline builder
\* --------------------------------------------------------------------------
RECURSIVE SeqSum(_)
SeqSum(s) == IF s = <<>> THEN 0 ELSE s[1] + SeqSum(Tail(s))

DropNa(s) == SelectSeq(s, LAMBDA x : ~isna(x))

\* the sum over i < j of (s[i] - s[j])^2, which is n * (the sum of squared deviations)
PairSq(s) ==
    LET pairs == {<<i, j>> \in (1 .. Len(s)) \X (1 .. Len(s)) : i < j}
        RECURSIVE Sum(_)
        Sum(S) == IF S = {} THEN 0
                  ELSE LET x == CHOOSE y \in S : TRUE
                       IN  (s[x[1]] - s[x[2]]) * (s[x[1]] - s[x[2]]) + Sum(S \ {x})
    IN  Sum(pairs)

\* nearest integer to sqrt(n / d), searched in 0 .. hi
SqrtRound(n, d, hi) ==
    CHOOSE r \in 0 .. hi :
        /\ (r = 0 \/ (2 * r - 1) * (2 * r - 1) * d <= 4 * n)
        /\ 4 * n < (2 * r + 1) * (2 * r + 1) * d

SeqMax(s) == CHOOSE x \in {s[i] : i \in 1 .. Len(s)} : \A i \in 1 .. Len(s) : s[i] <= x
SeqMin(s) == CHOOSE x \in {s[i] : i \in 1 .. Len(s)} : \A i \in 1 .. Len(s) : s[i] >= x

\* Series.mean() then round(2): NaN values are skipped, no value left gives NaN
MeanOf(col) ==
    LET s == DropNa(col)
    IN  IF s = <<>> THEN NaN ELSE RoundHalfEven(SeqSum(s), Len(s))

\* Series.std() then round(2): the sample standard deviation (ddof = 1), which is
\* sqrt(PairSq / (n * (n - 1))) and at most max - min; NaN for fewer than two values
StdOf(col) ==
    LET s == DropNa(col)
        n == Len(s)
    IN  IF n < 2 THEN NaN
        ELSE SqrtRound(PairSq(s), n * (n - 1), SeqMax(s) - SeqMin(s))

Column(df, c) == [i \in 1 .. Len(df) |-> df[i][c]]

\* comp_df.groupby('pillar_code')['score'].agg(['mean', 'std']).round(2)
GroupStats(comp_df) ==
    LET codes == {comp_df[i].pillar_code : i \in 1 .. Len(comp_df)}
        scores(p) == Column(SelectSeq(comp_df, LAMBDA r : r.pillar_code = p), "score")
    IN  [p \in codes |-> [mean |-> MeanOf(scores(p)), std |-> StdOf(scores(p))]]

FallbackStat == [mean |-> 0, std |-> 100]

\* baseline_psych: statistics of the three columns, or the (0, 1) fallback
PsychStats(psych_df) ==
    IF psych_df # <<>>
    THEN [v \in {"PAULI", "GTQ", "IQ"} |->
            LET c == IF v = "PAULI" THEN "pauli" ELSE IF v = "GTQ" THEN "gtq" ELSE "iq"
            IN  [mean |-> MeanOf(Column(psych_df, c)), std |-> StdOf(Column(psych_df, c))]]
    ELSE [v \in {"PAULI", "GTQ", "IQ"} |-> FallbackStat]

\* the builder without the fallback: no psychometric row, no baseline
BaselineWithoutPsychFallback(comp_df, psych_read) ==
    IF comp_df = <<>> \/ psych_read = <<>> THEN None
    ELSE [competencies |-> GroupStats(comp_df), psychometric |-> PsychStats(psych_read)]

\* the builder without the test for an empty competency frame: a baseline
\* holding psychometric statistics only
BaselineWithoutEmptyCheck(comp_df, psych_read) ==
    [competencies |-> GroupStats(comp_df), psychometric |-> PsychStats(psych_read)]

\* compute_baseline_from_benchmarks, given what the two reads return
\* (psych_read is <<>> both for no rows and for a read that raised)
compute_baseline_from_benchmarks(comp_df, psych_read) ==
    IF comp_df = <<>> THEN None
    ELSE [competencies |-> GroupStats(comp_df), psychometric |-> PsychStats(psych_read)]

\* --------------------------------------------------------------------------
\* compute_match_scores_optimized: the scores of one roster entry
\* --------------------------------------------------------------------------
weights == [pauli |-> 60, gtq |-> 28, iq |-> 12]

behav_score == 7500

context_score == 7500

RECURSIVE RatSum(_)
RatSum(s) == IF s = <<>> THEN <<0, 1>> ELSE RatAdd(s[1], RatSum(Tail(s)))

\* the sequence of the elements of a finite set, in some fixed order
RECURSIVE SetToSeq(_)
SetToSeq(S) == IF S = {} THEN <<>>
               ELSE LET x == CHOOSE y \in S : TRUE IN <<x>> \o SetToSeq(S \ {x})

\* comp_scores of lines 291-305: one match per baseline pillar the employee has a
\* row for, computed from the first such row
comp_scores(emp_comp, baseline_comp) ==
    LET has == {p \in DOMAIN baseline_comp :
                    \E i \in 1 .. Len(emp_comp) : emp_comp[i].pillar_code = p}
        pillar_data(p) == SelectSeq(emp_comp, LAMBDA r : r.pillar_code = p)
        match(p) == calculate_tv_match_vectorized(
                        pillar_data(p)[1].score, baseline_comp[p].mean, baseline_comp[p].std)
        ps == SetToSeq(has)
    IN  [i \in 1 .. Len(ps) |-> match(ps[i])]

\* the competency score with a baseline pillar the employee lacks counted as a
\* match of 0
CompetencyScoreOverAllPillars(emp_comp, baseline_comp) ==
    LET cs == comp_scores(emp_comp, baseline_comp)
        n == Cardinality(DOMAIN baseline_comp)
    IN  IF cs = <<>> THEN 0
        ELSE IF \E i \in 1 .. Len(cs) : isna(cs[i][1]) THEN NaN
        ELSE Round2(RatScale(RatSum(cs), 1, n))

\* comp_score of line 307
competency_score(emp_comp, baseline_comp) ==
    LET cs == comp_scores(emp_comp, baseline_comp)
    IN  IF cs = <<>> THEN 0
        ELSE IF \E i \in 1 .. Len(cs) : isna(cs[i][1]) THEN NaN
        ELSE Round2(RatScale(RatSum(cs), 1, Len(cs)))

\* psych_scores of lines 314-329: match * weight of every dimension whose value is
\* defined, from the employee's first record
psych_scores(rec, baseline_psych) ==
    LET upper(v) == IF v = "pauli" THEN "PAULI" ELSE IF v = "gtq" THEN "GTQ" ELSE "IQ"
        vars == SelectSeq(PsychVars, LAMBDA v : ~isna(rec[v]))
    IN  [i \in 1 .. Len(vars) |->
            RatScale(calculate_tv_match_vectorized(rec[vars[i]],
                         baseline_psych[upper(vars[i])].mean,
                         baseline_psych[upper(vars[i])].std),
                     weights[vars[i]], 100)]

\* the psychometric score with the weights of the dimensions in use scaled back
\* to a sum of 1
PsychScoreRenormalized(emp_id, psych_df, baseline_psych) ==
    LET emp_psych == SelectSeq(psych_df, LAMBDA r : r.employee_id = emp_id)
    IN  IF psych_df = <<>> THEN 0
        ELSE IF emp_psych = <<>> THEN 0
        ELSE LET s == psych_scores(emp_psych[1], baseline_psych)
                 used == SelectSeq(PsychVars, LAMBDA v : ~isna(emp_psych[1][v]))
                 total == SeqSum([i \in 1 .. Len(used) |-> weights[used[i]]])
             IN  IF s = <<>> THEN 0 ELSE Round2(RatScale(RatSum(s), 100, total))

\* psych_score of lines 310-335
psychometric_score(emp_id, psych_df, baseline_psych) ==
    LET emp_psych == SelectSeq(psych_df, LAMBDA r : r.employee_id = emp_id)
    IN  IF psych_df = <<>> THEN 0
        ELSE IF emp_psych = <<>> THEN 0
        ELSE LET s == psych_scores(emp_psych[1], baseline_psych)
             IN  IF s = <<>> THEN 0 ELSE Round2(RatSum(s))

\* the final score with the competency and psychometric weights exchanged
FinalWeightsSwapped(comp_score, psych_score) ==
    IF isna(comp_score) THEN NaN
    ELSE RoundHalfEven(comp_score * 25 + psych_score * 50
                       + behav_score * 20 + context_score * 5, 100)

\* final_score of line 340, rounded as in line 348
final_match_score(comp_score, psych_score) ==
    IF isna(comp_score) THEN NaN
    ELSE RoundHalfEven(comp_score * 50 + psych_score * 25
                       + behav_score * 20 + context_score * 5, 100)

\* one iteration of the loop of lines 283-349
ScoreEmployee(emp_id, baseline, comp_df, psych_df) ==
    LET emp_comp == SelectSeq(comp_df, LAMBDA r : r.employee_id = emp_id)
        comp_score == competency_score(emp_comp, baseline.competencies)
        psych_score == psychometric_score(emp_id, psych_df, baseline.psychometric)
    IN  [employee_id |-> emp_id,
         competency_score |-> comp_score,
         psychometric_score |-> psych_score,
         behavioral_score |-> behav_score,
         contextual_score |-> context_score,
         final_match_score |-> final_match_score(comp_score, psych_score)]

\* the rows the loop appends, in roster order
ScoreAll(all_emp_ids, baseline, comp_df, psych_df) ==
    [i \in 1 .. Len(all_emp_ids) |-> ScoreEmployee(all_emp_ids[i], baseline, comp_df, psych_df)]

\* sort_values('final_match_score', ascending=False) with the default
\* kind='quicksort': the rows in descending order of the key; quicksort is not a
\* stable sort, so rows with equal keys may come out in any order
IndexPerms(n) == {f \in [1 .. n -> 1 .. n] : \A i, j \in 1 .. n : i # j => f[i] # f[j]}

Descending(rows) ==
    \A i, j \in 1 .. Len(rows) :
        i < j => rows[i].final_match_score >= rows[j].final_match_score

sort_values(rows) ==
    {s \in {[i \in 1 .. Len(rows) |-> rows[f[i]]] : f \in IndexPerms(Len(rows))} :
        Descending(s)}

VARIABLES
    pc,             \* where main() is in the current run of the script
    selected_ids,   \* the benchmark employees chosen in the sidebar
    bench_comp_df,  \* builder: the benchmark competency rows read
    bench_psych_df, \* builder: the benchmark psychometric rows read (<<>> when the read raised)
    baseline,       \* main's baseline: None or the builder's result
    job_profile,    \* main's job_profile, "" before it is generated
    all_emp_ids,    \* scorer: the roster read for the scoring year
    comp_df,        \* scorer: the competency rows read
    psych_df,       \* scorer: the psychometric rows read (<<>> when the read raised)
    results,        \* scorer: the rows appended by the loop, in roster order
    match_scores,   \* what the scorer returned to main (<<>> is the empty frame)
    errors,         \* the messages shown with st.error / st.warning in this run
    reads,          \* <<function, table>> for every table read in this run
    shown,          \* the output sections main has rendered in this run
    tv_in,      \* the arguments of a call of the transform, or <<>>
    tv_out,     \* its result, or <<>> before the call
    cs_in,      \* a competency baseline and an employee's competency rows, or <<>>
    cs_out,     \* <<comp_score>> computed from them, or <<>> before
    ps_in,      \* an employee id, a psychometric table and a psychometric baseline, or <<>>
    ps_out,     \* <<psych_score>> computed from them, or <<>> before
    sc_in,      \* a baseline, the two tables and an employee id, or <<>>
    sc_out      \* <<the employee's result row>>, or <<>> before

vars == <<pc, selected_ids, bench_comp_df, bench_psych_df, baseline, job_profile, all_emp_ids, comp_df, psych_df,
          results, match_scores, errors, reads, shown, tv_in, tv_out,
          cs_in, cs_out, ps_in, ps_out, sc_in, sc_out>>

tv_vars == <<tv_in, tv_out>>

cs_vars == <<cs_in, cs_out>>

ps_vars == <<ps_in, ps_out>>

sc_vars == <<sc_in, sc_out>>

pure_vars == <<tv_vars, cs_vars, ps_vars, sc_vars>>

run_vars == <<pc, selected_ids, bench_comp_df, bench_psych_df, baseline, job_profile, all_emp_ids, comp_df, psych_df,
              results, match_scores, errors, reads, shown>>

\* --------------------------------------------------------------------------
\* What the store can return.  The store is a remote service: every bulk read
\* of a run is a separate request and returns the rows stored at that moment.
\* --------------------------------------------------------------------------
SeqsUpTo(S, n) == UNION {[1 .. k -> S] : k \in 0 .. n}

HighPerformers == {"B1", "B2"}

Scores == {100 * k : k \in 1 .. MaxScore}

\* psychometric values of a run: missing, or 0
PsychVals == {0, NaN}

\* psychometric records of a run: gtq and iq are measured together
PsychRecords == {[pauli |-> a, gtq |-> b, iq |-> b] : a, b \in PsychVals}

\* the benchmark employees' competency rows: none, one or two, listed by
\* pillar and score (the grouping does not depend on the order of the rows)
RowKey(r) == (IF r.pillar_code = "P1" THEN 0 ELSE 100000) + r.score

BenchCompInputs ==
    {t \in SeqsUpTo([pillar_code : Pillars, score : Scores], 2) :
        \A i \in 1 .. Len(t) - 1 : RowKey(t[i]) <= RowKey(t[i + 1])}

\* the benchmark employees' psychometric records: none or one
BenchPsychInputs == SeqsUpTo(PsychRecords, 1)

Rosters == SeqsUpTo(Employees, MaxRoster)

\* the competency rows of the scoring year: none or one
CompTables == SeqsUpTo([employee_id : Employees, pillar_code : Pillars, score : Scores], 1)

\* the psychometric records of the population: none or one
PsychTables ==
    SeqsUpTo({[employee_id |-> e, pauli |-> r.pauli, gtq |-> r.gtq, iq |-> r.iq] :
                e \in Employees, r \in PsychRecords}, 1)

\* --------------------------------------------------------------------------
\* main(): one analysis run
\* --------------------------------------------------------------------------
RunStart ==
    /\ pc = "sidebar"
    /\ selected_ids = {}
    /\ bench_comp_df = <<>>
    /\ bench_psych_df = <<>>
    /\ baseline = None
    /\ job_profile = ""
    /\ all_emp_ids = <<>>
    /\ comp_df = <<>>
    /\ psych_df = <<>>
    /\ results = <<>>
    /\ match_scores = <<>>
    /\ errors = {}
    /\ reads = {}
    /\ shown = {}

TVIdle == tv_in = <<>> /\ tv_out = <<>>

CSIdle == cs_in = <<>> /\ cs_out = <<>>

PSIdle == ps_in = <<>> /\ ps_out = <<>>

SCIdle == sc_in = <<>> /\ sc_out = <<>>

PureIdle == TVIdle /\ CSIdle /\ PSIdle /\ SCIdle

Init == RunStart /\ PureIdle

\* lines 513-517: no high performer can be loaded
NoHighPerformers ==
    /\ pc = "sidebar"
    /\ errors' = errors \cup {"Cannot load employees"}
    /\ pc' = "stopped"
    /\ UNCHANGED <<selected_ids, bench_comp_df, bench_psych_df, baseline, job_profile, all_emp_ids, comp_df, psych_df,
                   results, match_scores, reads, shown>>
    /\ UNCHANGED pure_vars

\* lines 523-535, 676-677: the button is pressed with a selection
Click ==
    /\ pc = "sidebar"
    /\ \E ids \in SUBSET HighPerformers :
        /\ selected_ids' = ids
        /\ IF Cardinality(ids) >= 2
           THEN pc' = "baseline" /\ UNCHANGED errors
           ELSE pc' = "warned" /\ errors' = errors \cup {"Select at least 2 benchmarks"}
    /\ UNCHANGED <<bench_comp_df, bench_psych_df, baseline, job_profile, all_emp_ids,
                   comp_df, psych_df, results, match_scores, reads, shown>>
    /\ UNCHANGED pure_vars

\* lines 541-545 with compute_baseline_from_benchmarks (lines 193-227)
ComputeBaseline ==
    /\ pc = "baseline"
    /\ \E bench_comp \in BenchCompInputs, raised \in BOOLEAN :
        \E bench_psych \in IF raised \/ bench_comp = <<>> THEN {<<>>} ELSE BenchPsychInputs :
        LET b == compute_baseline_from_benchmarks(bench_comp, bench_psych)
        IN  /\ bench_comp_df' = bench_comp
            /\ bench_psych_df' = bench_psych
            /\ baseline' = b
            /\ IF b = None
               THEN /\ errors' = errors \cup {"No competency data"}
                    /\ reads' = reads \cup {<<"baseline", "competencies_yearly">>}
                    /\ pc' = "stopped"
               ELSE /\ UNCHANGED errors
                    /\ reads' = reads \cup {<<"baseline", "competencies_yearly">>,
                                            <<"baseline", "profiles_psych">>}
                    /\ pc' = "profile"
    /\ UNCHANGED <<selected_ids, job_profile, all_emp_ids, comp_df, psych_df,
                   results, match_scores, shown>>
    /\ UNCHANGED pure_vars

\* lines 547-549: generate_job_profile_openrouter returns a profile (the
\* generated one or the fallback)
GenerateProfile ==
    /\ pc = "profile"
    /\ job_profile' = "profile"
    /\ pc' = "roster"
    /\ UNCHANGED <<selected_ids, bench_comp_df, bench_psych_df, baseline, all_emp_ids, comp_df, psych_df,
                   results, match_scores, errors, reads, shown>>
    /\ UNCHANGED pure_vars

\* the roster read without the test for an empty roster
FetchRosterWithoutEmptyCheck ==
    /\ UNCHANGED pure_vars
    /\ pc = "roster"
    /\ \E ids \in Rosters : all_emp_ids' = ids
    /\ reads' = reads \cup {<<"scorer", "performance_yearly">>}
    /\ pc' = "fetch"
    /\ match_scores' = <<>>
    /\ UNCHANGED <<selected_ids, bench_comp_df, bench_psych_df, baseline, job_profile,
                   comp_df, psych_df, results, errors, shown>>

\* lines 254-260: the scorer reads the roster
FetchRoster ==
    /\ pc = "roster"
    /\ \E ids \in Rosters :
        /\ all_emp_ids' = ids
        /\ reads' = reads \cup {<<"scorer", "performance_yearly">>}
        /\ IF ids = <<>>
           THEN /\ errors' = errors \cup {"No employees found"}
                /\ pc' = "returned"
           ELSE /\ UNCHANGED errors
                /\ pc' = "fetch"
    /\ match_scores' = <<>>
    /\ UNCHANGED <<selected_ids, bench_comp_df, bench_psych_df, baseline, job_profile, comp_df, psych_df, results, shown>>
    /\ UNCHANGED pure_vars

\* lines 264-289, 354-356: the two bulk reads return, the competency read with
\* no rows.  The frame built from no rows has no column 'employee_id': the
\* first iteration raises KeyError and the handler returns the empty frame
ScoreRaises ==
    /\ UNCHANGED pure_vars
    /\ pc = "fetch"
    /\ \E raised \in BOOLEAN :
        \E psych \in IF raised THEN {<<>>} ELSE PsychTables :
            psych_df' = psych
    /\ comp_df' = <<>>
    /\ reads' = reads \cup {<<"scorer", "competencies_yearly">>, <<"scorer", "profiles_psych">>}
    /\ errors' = errors \cup {"Error: 'employee_id'"}
    /\ match_scores' = <<>>
    /\ pc' = "returned"
    /\ UNCHANGED <<selected_ids, bench_comp_df, bench_psych_df, baseline, job_profile, all_emp_ids, results, shown>>

\* lines 264-352: the two bulk reads, the loop over the roster, then the sort
ScoreReturns ==
    /\ UNCHANGED pure_vars
    /\ pc = "fetch"
    /\ \E comp \in CompTables \ {<<>>}, raised \in BOOLEAN :
        \E psych \in IF raised THEN {<<>>} ELSE PsychTables :
            /\ comp_df' = comp
            /\ psych_df' = psych
    /\ reads' = reads \cup {<<"scorer", "competencies_yearly">>, <<"scorer", "profiles_psych">>}
    /\ results' = ScoreAll(all_emp_ids, baseline, comp_df', psych_df')
    /\ match_scores' \in sort_values(results')
    /\ pc' = "returned"
    /\ UNCHANGED <<selected_ids, bench_comp_df, bench_psych_df, baseline, job_profile, all_emp_ids, errors, shown>>

\* lines 552-557: back in main; the scorer's locals are gone
CheckScores ==
    /\ pc = "returned"
    /\ IF match_scores = <<>>
       THEN pc' = "stopped" /\ UNCHANGED shown
       ELSE pc' = "show_profile" /\ shown' = shown \cup {"success"}
    /\ all_emp_ids' = <<>>
    /\ comp_df' = <<>>
    /\ psych_df' = <<>>
    /\ results' = <<>>
    /\ UNCHANGED <<selected_ids, bench_comp_df, bench_psych_df, baseline, job_profile, match_scores, errors, reads>>
    /\ UNCHANGED pure_vars

\* lines 559-572
ShowProfile ==
    /\ pc = "show_profile"
    /\ shown' = shown \cup {"job_profile"}
    /\ pc' = "show_ranked"
    /\ UNCHANGED <<selected_ids, bench_comp_df, bench_psych_df, baseline, job_profile, all_emp_ids, comp_df, psych_df,
                   results, match_scores, errors, reads>>
    /\ UNCHANGED pure_vars

\* lines 574-610: the ranked list and the CSV download
ShowRanked ==
    /\ pc = "show_ranked"
    /\ shown' = shown \cup {"ranked_list", "csv"}
    /\ pc' = "show_dashboard"
    /\ UNCHANGED <<selected_ids, bench_comp_df, bench_psych_df, baseline, job_profile, all_emp_ids, comp_df, psych_df,
                   results, match_scores, errors, reads>>
    /\ UNCHANGED pure_vars

\* lines 612-674: the charts and the summary
ShowDashboard ==
    /\ pc = "show_dashboard"
    /\ shown' = shown \cup {"visualizations", "insights"}
    /\ pc' = "done"
    /\ UNCHANGED <<selected_ids, bench_comp_df, bench_psych_df, baseline, job_profile, all_emp_ids, comp_df, psych_df,
                   results, match_scores, errors, reads>>
    /\ UNCHANGED pure_vars

\* the next interaction reruns the script from the top
Rerun ==
    /\ pc \in {"stopped", "warned", "done"}
    /\ pc' = "sidebar"
    /\ selected_ids' = {}
    /\ bench_comp_df' = <<>>
    /\ bench_psych_df' = <<>>
    /\ baseline' = None
    /\ job_profile' = ""
    /\ all_emp_ids' = <<>>
    /\ comp_df' = <<>>
    /\ psych_df' = <<>>
    /\ results' = <<>>
    /\ match_scores' = <<>>
    /\ errors' = {}
    /\ reads' = {}
    /\ shown' = {}
    /\ UNCHANGED pure_vars

Next ==
    \/ NoHighPerformers
    \/ Click
    \/ ComputeBaseline
    \/ GenerateProfile
    \/ FetchRoster
    \/ ScoreRaises
    \/ ScoreReturns
    \/ CheckScores
    \/ ShowProfile
    \/ ShowRanked
    \/ ShowDashboard
    \/ Rerun

Spec == Init /\ [][Next]_vars

\* --------------------------------------------------------------------------
\* The transform on its own
\* --------------------------------------------------------------------------
\* inputs of the transform: candidate values and baseline statistics
TVValues == {100 * k : k \in 0 .. MaxVal} \cup {NaN}
TVMeans  == {50 * k : k \in 0 .. 2 * MaxVal} \cup {NaN}
TVStds   == {0, 10, 50, 71, 100, 141, 707} \cup {NaN}

TVInit ==
    /\ RunStart
    /\ CSIdle /\ PSIdle /\ SCIdle
    /\ tv_in \in {<<v, m, s>> : v \in TVValues, m \in TVMeans, s \in TVStds}
    /\ tv_out = <<>>

TVCall ==
    /\ tv_out = <<>>
    /\ tv_out' = calculate_tv_match_vectorized(tv_in[1], tv_in[2], tv_in[3])
    /\ UNCHANGED <<tv_in, cs_vars, ps_vars, sc_vars, run_vars>>

TVNext == TVCall

SpecTV == TVInit /\ [][TVNext]_vars

\* --------------------------------------------------------------------------
\* The competency sub-score on its own: the baseline of some benchmark rows
\* and the competency rows of one employee
\* --------------------------------------------------------------------------
CompBaselines ==
    {GroupStats(t) :
        t \in {u \in SeqsUpTo([pillar_code : Pillars, score : Scores], MaxBenchRows) :
                 /\ u # <<>>
                 /\ \A i \in 1 .. Len(u) - 1 : RowKey(u[i]) <= RowKey(u[i + 1])}}

EmpCompRows == SeqsUpTo([employee_id : {"E1"}, pillar_code : Pillars, score : Scores], MaxEmpRows)

CSInit ==
    /\ RunStart
    /\ TVIdle /\ PSIdle /\ SCIdle
    /\ cs_in \in {[baseline_comp |-> b, emp_comp |-> r] : b \in CompBaselines, r \in EmpCompRows}
    /\ cs_out = <<>>

CSCall ==
    /\ cs_out = <<>>
    /\ cs_out' = <<competency_score(cs_in.emp_comp, cs_in.baseline_comp)>>
    /\ UNCHANGED <<cs_in, tv_vars, ps_vars, sc_vars, run_vars>>

CSNext == CSCall

SpecComp == CSInit /\ [][CSNext]_vars

\* --------------------------------------------------------------------------
\* The psychometric sub-score on its own: a psychometric baseline, the
\* psychometric table of the population and the employee scored
\* --------------------------------------------------------------------------
\* statistics the builder can store for a dimension: the fallback, those of the
\* values (1, 2), of equal values, of no value
PsychStatChoices ==
    {FallbackStat, [mean |-> 150, std |-> 71], [mean |-> 100, std |-> 0],
     [mean |-> NaN, std |-> NaN]}

PsychBaselines == [{"PAULI", "GTQ", "IQ"} -> PsychStatChoices]

PsychScoreVals == {100 * k : k \in 0 .. MaxVal} \cup {NaN}

PsychRows(e) ==
    {[employee_id |-> e, pauli |-> a, gtq |-> b, iq |-> c] : a, b, c \in PsychScoreVals}

\* the table: empty, without a record of E1, with one record of E1 (alone or
\* after a record of E2), or with two records of E1
PsychTableInputs ==
    LET zero(e) == [employee_id |-> e, pauli |-> 0, gtq |-> 0, iq |-> 0]
    IN  {<<>>, <<zero("E2")>>}
            \cup {<<r>> : r \in PsychRows("E1")}
            \cup {<<zero("E2"), r>> : r \in PsychRows("E1")}
            \cup {<<r, zero("E1")>> : r \in PsychRows("E1")}

PSInit ==
    /\ RunStart
    /\ TVIdle /\ CSIdle /\ SCIdle
    /\ ps_in \in {[emp_id |-> "E1", psych_df |-> t, baseline_psych |-> b] :
                    t \in PsychTableInputs, b \in PsychBaselines}
    /\ ps_out = <<>>

PSCall ==
    /\ ps_out = <<>>
    /\ ps_out' = <<psychometric_score(ps_in.emp_id, ps_in.psych_df, ps_in.baseline_psych)>>
    /\ UNCHANGED <<ps_in, tv_vars, cs_vars, sc_vars, run_vars>>

PSNext == PSCall

SpecPsych == PSInit /\ [][PSNext]_vars

\* --------------------------------------------------------------------------
\* One iteration of the scoring loop on its own: a baseline, the two tables
\* and the employee scored.  A score the store holds as null is NaN in the
\* frame; the competency frame is never empty here (with an empty one the
\* iteration raises, see ScoreRaises)
\* --------------------------------------------------------------------------
ScoreCompBaselines == {GroupStats(t) : t \in BenchCompInputs \ {<<>>}}

ScorePsychBaselines == {[D \in {"PAULI", "GTQ", "IQ"} |-> st] : st \in PsychStatChoices}

\* a competency row of another employee, then none, one or two rows of E1
ScoreCompTables ==
    LET other == [employee_id |-> "E2", pillar_code |-> "P1", score |-> 100]
        rows == [employee_id : {"E1"}, pillar_code : Pillars, score : Scores \cup {NaN}]
    IN  {<<other>> \o t :
            t \in {u \in SeqsUpTo(rows, 2) :
                     Len(u) = 2 => (u[1].pillar_code = "P1" /\ u[2].pillar_code = "P2")}}

SCInit ==
    /\ RunStart
    /\ TVIdle /\ CSIdle /\ PSIdle
    /\ sc_in \in {[emp_id |-> "E1",
                    baseline |-> [competencies |-> bc, psychometric |-> bp],
                    comp_df |-> c, psych_df |-> p] :
                    bc \in ScoreCompBaselines, bp \in ScorePsychBaselines,
                    c \in ScoreCompTables, p \in PsychTables}
    /\ sc_out = <<>>

SCCall ==
    /\ sc_out = <<>>
    /\ sc_out' = <<ScoreEmployee(sc_in.emp_id, sc_in.baseline, sc_in.comp_df, sc_in.psych_df)>>
    /\ UNCHANGED <<sc_in, tv_vars, cs_vars, ps_vars, run_vars>>

SCNext == SCCall

SpecScore == SCInit /\ [][SCNext]_vars

\* --------------------------------------------------------------------------
\* Properties of the transform (SpecTV)
\* --------------------------------------------------------------------------
TVDefined == tv_out # <<>> /\ ~isna(tv_in[1]) /\ ~isna(tv_in[2]) /\ ~isna(tv_in[3])

\* C1: for a candidate value v and a defined baseline mean mu and standard
\* deviation sigma > 0, the match equals max(0, 100 - |v - mu| / sigma * 10),
\* lies in [0, 100], and is 100 when v = mu.
C1_MatchFormula ==
    (TVDefined /\ tv_in[3] > 0) =>
        LET v == tv_in[1]
            mu == tv_in[2]
            sigma == tv_in[3]
        IN  /\ tv_out[1] * sigma = tv_out[2] * Max(0, 100 * sigma - 10 * Abs(v - mu))
            /\ 0 <= tv_out[1]
            /\ tv_out[1] <= 100 * tv_out[2]
            /\ (v = mu => tv_out = <<100, 1>>)

\* a call 15 / 0.71 standard deviations away from the mean, floored at 0
C1_Witness ==
    /\ TVDefined
    /\ tv_in = <<300, 150, 10>>
    /\ tv_out = <<0, 1>>

\* C2: with an undefined mean, an undefined standard deviation or a standard
\* deviation of 0 the match is exactly 0 for every candidate value, missing
\* ones included: a value, not nan.
C2_ZeroWithoutBaseline ==
    (tv_out # <<>> /\ (isna(tv_in[2]) \/ isna(tv_in[3]) \/ tv_in[3] = 0)) =>
        tv_out = <<0, 1>>

\* a call with a standard deviation of 0 and the candidate on the mean
C2_Witness ==
    /\ TVDefined
    /\ tv_in[3] = 0
    /\ tv_in[1] = tv_in[2]
    /\ tv_out = <<0, 1>>

\* --------------------------------------------------------------------------
\* Properties of the analysis run (Spec)
\* --------------------------------------------------------------------------
ScorerReads == {r \in reads : r[1] = "scorer"}

RankingShown == shown \cap {"success", "ranked_list", "csv", "visualizations", "insights"}

ScorerReturned == pc = "returned"

InRoster(e) == \E i \in 1 .. Len(all_emp_ids) : all_emp_ids[i] = e

\* C3: with an empty roster the scorer reports "No employees found" and
\* returns the empty frame, having read neither the competency nor the
\* psychometric table and without raising; main then stops, and no ranked
\* list, CSV export or visualization is produced in that run.
C3_EmptyRosterStops ==
    /\ (ScorerReturned /\ all_emp_ids = <<>>) =>
            /\ "No employees found" \in errors
            /\ "Error: 'employee_id'" \notin errors
            /\ match_scores = <<>>
            /\ ScorerReads = {<<"scorer", "performance_yearly">>}
    /\ "No employees found" \in errors =>
            /\ pc \in {"returned", "stopped"}
            /\ ScorerReads = {<<"scorer", "performance_yearly">>}
            /\ match_scores = <<>>
            /\ RankingShown = {}

\* main has stopped after the scorer found the roster empty
C3_Witness ==
    /\ pc = "stopped"
    /\ "No employees found" \in errors
    /\ baseline # None

\* C4: with no competency row for the selected benchmark employees the builder
\* reports "No competency data" and returns None, not a baseline of
\* psychometric statistics, and the run halts: the job profile, the scoring
\* and the ranking are never started in that run.
C4_NoBenchmarkDataHalts ==
    (<<"baseline", "competencies_yearly">> \in reads /\ bench_comp_df = <<>>) =>
        /\ "No competency data" \in errors
        /\ baseline = None
        /\ pc = "stopped"
        /\ <<"baseline", "profiles_psych">> \notin reads
        /\ job_profile = ""
        /\ ScorerReads = {}
        /\ match_scores = <<>>
        /\ shown = {}

\* the builder has read no competency row and main has stopped
C4_Witness ==
    /\ pc = "stopped"
    /\ <<"baseline", "competencies_yearly">> \in reads
    /\ bench_comp_df = <<>>
    /\ Cardinality(selected_ids) >= 2

Absent(e) ==
    /\ \A i \in 1 .. Len(comp_df) : comp_df[i].employee_id # e
    /\ \A i \in 1 .. Len(psych_df) : psych_df[i].employee_id # e

AbsentResult(e) ==
    [employee_id |-> e, competency_score |-> 0, psychometric_score |-> 0,
     behavioral_score |-> 7500, contextual_score |-> 7500, final_match_score |-> 1875]

\* C5: in every scoring run with a valid baseline, every roster employee with
\* no competency row and no psychometric row gets a result with
\* competency_score = 0, psychometric_score = 0 and final_match_score = 18.75,
\* whatever else the two tables hold, also when a table holds no row at all.
C5_AbsentEmployeeScored ==
    (ScorerReturned /\ baseline # None) =>
        \A e \in Employees :
            (InRoster(e) /\ Absent(e)) =>
                \E k \in 1 .. Len(match_scores) : match_scores[k] = AbsentResult(e)

\* C6: whenever the benchmark competency set and the roster are not empty the
\* run completes and returns a result for every roster employee, whichever
\* secondary data is missing.
C6_OnlyDataUnavailableAborts ==
    (ScorerReturned /\ bench_comp_df # <<>> /\ all_emp_ids # <<>>) =>
        /\ errors = {}
        /\ \A e \in Employees :
              InRoster(e) => \E k \in 1 .. Len(match_scores) : match_scores[k].employee_id = e

\* C7: a successful scoring run returns exactly one MatchResult for each
\* roster employee and none for any other employee, also when the roster
\* holds more than one row for an employee.
C7_OneResultPerEmployee ==
    (ScorerReturned /\ match_scores # <<>>) =>
        \A e \in Employees :
            Cardinality({k \in 1 .. Len(match_scores) : match_scores[k].employee_id = e})
                = IF InRoster(e) THEN 1 ELSE 0

\* the rows in descending order of final_match_score, rows with equal scores
\* in their input order
StableDescending(rows) ==
    LET f == CHOOSE g \in IndexPerms(Len(rows)) :
                \A i, j \in 1 .. Len(rows) :
                    i < j =>
                        \/ rows[g[i]].final_match_score > rows[g[j]].final_match_score
                        \/ /\ rows[g[i]].final_match_score = rows[g[j]].final_match_score
                           /\ g[i] < g[j]
    IN  [i \in 1 .. Len(rows) |-> rows[f[i]]]

C9_FinalScoreFormula ==
    \A k \in 1 .. Len(match_scores) :
        LET r == match_scores[k]
        IN  /\ r.behavioral_score = 7500
            /\ r.contextual_score = 7500
            /\ r.final_match_score =
                  RoundHalfEven(2 * r.competency_score + r.psychometric_score + 4 * 1875, 4)

\* a result with a competency match, a psychometric match and a final score
\* that needed rounding
C9_Witness ==
    /\ ScorerReturned
    /\ \E k \in 1 .. Len(match_scores) :
        /\ match_scores[k].competency_score > 0
        /\ match_scores[k].psychometric_score > 0
        /\ (2 * match_scores[k].competency_score + match_scores[k].psychometric_score) % 4 # 0

\* the builder has read competency rows and no psychometric record (no row
\* stored for the benchmark employees, or the read raised)
BuiltWithoutPsych ==
    /\ <<"baseline", "competencies_yearly">> \in reads
    /\ bench_comp_df # <<>>
    /\ bench_psych_df = <<>>

\* psychometric values tried against the fallback: 0 .. MaxVal, and 15, past the floor
ProbeVals == {100 * k : k \in 0 .. MaxVal} \cup {1500}

\* C12: with benchmark competency rows and no psychometric record of any
\* benchmark employee (or a psychometric read that failed) the builder still
\* returns a baseline, whose PAULI, GTQ and IQ entries have mean 0 and
\* standard deviation 1: the match of a value v against each is
\* max(0, 100 - |v| * 10).
C12_PsychFallback ==
    BuiltWithoutPsych =>
        /\ baseline # None
        /\ "No competency data" \notin errors
        /\ DOMAIN baseline.psychometric = {"PAULI", "GTQ", "IQ"}
        /\ \A D \in {"PAULI", "GTQ", "IQ"} :
              /\ baseline.psychometric[D].mean = 0
              /\ baseline.psychometric[D].std = 100
              /\ \A v \in ProbeVals :
                    LET m == calculate_tv_match_vectorized(
                                 v, baseline.psychometric[D].mean, baseline.psychometric[D].std)
                    IN  10 * m[1] = m[2] * Max(0, 1000 - Abs(v))

\* a run scored against the fallback baseline: the benchmark employees had
\* competency rows and no psychometric record
C12_Witness ==
    /\ BuiltWithoutPsych
    /\ ScorerReturned
    /\ match_scores # <<>>
    /\ <<"baseline", "profiles_psych">> \in reads

\* C13: in every baseline the builder returns for a benchmark set of two or
\* more employees, every competency pillar of the benchmark rows and each of
\* PAULI, GTQ, IQ has a defined mean and a defined standard deviation >= 0,
\* also when a dimension has a single benchmark record.
C13_BaselineDefined ==
    (baseline # None /\ Cardinality(selected_ids) >= 2) =>
        /\ \A p \in DOMAIN baseline.competencies :
              /\ ~isna(baseline.competencies[p].mean)
              /\ ~isna(baseline.competencies[p].std)
              /\ baseline.competencies[p].std >= 0
        /\ \A D \in DOMAIN baseline.psychometric :
              /\ ~isna(baseline.psychometric[D].mean)
              /\ ~isna(baseline.psychometric[D].std)
              /\ baseline.psychometric[D].std >= 0

\* --------------------------------------------------------------------------
\* Properties of the competency sub-score (SpecComp)
\* --------------------------------------------------------------------------
\* the employee's score for pillar p: that of the first row, 0 - 1 when there is none
FirstScore(rows, p) ==
    IF \E i \in 1 .. Len(rows) : rows[i].pillar_code = p
    THEN rows[CHOOSE i \in 1 .. Len(rows) :
                /\ rows[i].pillar_code = p
                /\ \A j \in 1 .. i - 1 : rows[j].pillar_code # p].score
    ELSE -1

\* the match of a score against (mean, std), as a fraction
PillarMatch(v, st) ==
    IF isna(st.mean) \/ isna(st.std) \/ st.std = 0 THEN <<0, 1>>
    ELSE <<Max(0, 100 * st.std - 10 * Abs(v - st.mean)), st.std>>

\* C10: competency_score is the mean, rounded to 2 decimals, of the matches of
\* exactly the baseline pillars the employee has a score for: a baseline
\* pillar the employee lacks is left out of the average, a pillar the baseline
\* lacks is ignored, and with no baseline pillar at all the score is 0.
C10_CompetencyMean ==
    cs_out # <<>> =>
        LET b == cs_in.baseline_comp
            has(p) == p \in DOMAIN b /\ FirstScore(cs_in.emp_comp, p) # -1
            m(p) == PillarMatch(FirstScore(cs_in.emp_comp, p), b[p])
        IN  cs_out[1] =
                IF has("P1") /\ has("P2")
                THEN Round2(<<m("P1")[1] * m("P2")[2] + m("P2")[1] * m("P1")[2],
                              2 * m("P1")[2] * m("P2")[2]>>)
                ELSE IF has("P1") THEN Round2(m("P1"))
                ELSE IF has("P2") THEN Round2(m("P2"))
                ELSE 0

\* the baseline has both pillars, the employee only one of them, with a match
\* strictly between 0 and 100
C10_Witness ==
    /\ cs_out # <<>>
    /\ DOMAIN cs_in.baseline_comp = {"P1", "P2"}
    /\ FirstScore(cs_in.emp_comp, "P1") # -1
    /\ FirstScore(cs_in.emp_comp, "P2") = -1
    /\ cs_out[1] > 0
    /\ cs_out[1] < 10000

\* --------------------------------------------------------------------------
\* Properties of the psychometric sub-score (SpecPsych)
\* --------------------------------------------------------------------------
\* the index of the first record of employee e in the table, 0 when there is none
FirstRecord(t, e) ==
    IF \E i \in 1 .. Len(t) : t[i].employee_id = e
    THEN CHOOSE i \in 1 .. Len(t) :
            /\ t[i].employee_id = e
            /\ \A j \in 1 .. i - 1 : t[j].employee_id # e
    ELSE 0

\* C11: for an employee with a psychometric record psychometric_score is the
\* sum, over the dimensions pauli, gtq, iq whose value is defined, of the match
\* against the baseline dimension times 0.60, 0.28, 0.12, rounded to 2
\* decimals; the weights are not renormalized, so the score is at most 100
\* times the sum of the weights in use; without a record the score is 0.
C11_PsychWeightedSum ==
    ps_out # <<>> =>
        LET k == FirstRecord(ps_in.psych_df, ps_in.emp_id)
            rec == ps_in.psych_df[k]
            b == ps_in.baseline_psych
            c(d, D, w) == IF isna(rec[d]) THEN <<0, 1>>
                          ELSE RatScale(PillarMatch(rec[d], b[D]), w, 100)
            inuse == (IF isna(rec.pauli) THEN 0 ELSE 60)
                        + (IF isna(rec.gtq) THEN 0 ELSE 28)
                        + (IF isna(rec.iq) THEN 0 ELSE 12)
        IN  IF k = 0 THEN ps_out[1] = 0
            ELSE /\ ps_out[1] = Round2(RatAdd(RatAdd(c("pauli", "PAULI", 60),
                                                     c("gtq", "GTQ", 28)),
                                              c("iq", "IQ", 12)))
                 /\ ps_out[1] <= 100 * inuse

\* a record without an iq value whose pauli and gtq values are on the baseline
\* means: 88 points, not 100
C11_Witness ==
    /\ ps_out = <<8800>>
    /\ FirstRecord(ps_in.psych_df, ps_in.emp_id) = 2
    /\ isna(ps_in.psych_df[2].iq)
    /\ ps_in.psych_df[2].pauli = 0
    /\ ps_in.baseline_psych["PAULI"] = FallbackStat

\* --------------------------------------------------------------------------
\* Properties of one result row (SpecScore)
\* --------------------------------------------------------------------------
\* C14: in every MatchResult, for any baseline and any table contents,
\* competency_score is in [0, 100], psychometric_score is in [0, 100] and
\* final_match_score is in [18.75, 100].
C14_ScoreBounds ==
    sc_out # <<>> =>
        LET r == sc_out[1]
        IN  /\ 0 <= r.competency_score /\ r.competency_score <= 10000
            /\ 0 <= r.psychometric_score /\ r.psychometric_score <= 10000
            /\ 1875 <= r.final_match_score /\ r.final_match_score <= 10000

====
